---- MODULE Spec2Model ----
(***************************************************************************)
(* PDF Merge & Compress: the target-size compression search               *)
(* (compressToTargetSize), the single-pass compressor (compressPdf), the   *)
(* browser merge (mergePdfs, handleMerge) and the command-line merge.      *)
(*                                                                         *)
(* Byte buffers are records [kind, id, len, pages]: id names the buffer    *)
(* object (0 is the caller's input, k the buffer saved by the k-th pass),  *)
(* len is its byte length, pages the pages of the document it holds.       *)
(* quality and scale are exact fixed-point numbers: quality in units of    *)
(* 1/QUnit, scale in units of 1/SUnit, chosen so that every product by     *)
(* 0.7 and by 0.85 the search can form is an integer.                      *)
(***************************************************************************)
EXTENDS Integers, Sequences, FiniteSets, TLC

\* ------------------------------------------------------------------ bounds
MaxSize == 11
MaxTarget == 3
MaxOut == 2
MaxPages == 2

\* --------------------------------------------------------------- constants
maxAttempts == 5

QUnit == 10^6
SUnit == 20^6

\* n hundredths, in the given unit
Pct(n, unit) == n * (unit \div 100)

QualityFloor == Pct(10, QUnit)
ScaleFloor == Pct(30, SUnit)

Max(a, b) == IF a >= b THEN a ELSE b

COMPRESSION_PRESETS ==
  [ extreme |-> [quality |-> Pct(30, QUnit), scale |-> Pct(50, SUnit)],
    high    |-> [quality |-> Pct(50, QUnit), scale |-> Pct(75, SUnit)],
    medium  |-> [quality |-> Pct(70, QUnit), scale |-> Pct(100, SUnit)],
    low     |-> [quality |-> Pct(85, QUnit), scale |-> Pct(100, SUnit)],
    minimal |-> [quality |-> Pct(95, QUnit), scale |-> Pct(100, SUnit)] ]

PresetKey == {"extreme", "high", "medium", "low", "minimal"}

\* ------------------------------------------------------------------ values
Null == [kind |-> "null"]

Bytes(id, len, pages) == [kind |-> "bytes", id |-> id, len |-> len, pages |-> pages]

Error(message) == [kind |-> "error", message |-> message]

\* the pages of an n-page source document named doc
SourcePages(doc, n) == [k \in 1..n |-> [doc |-> doc, no |-> k]]

\* result.length / (1024 * 1024), kept as an exact fraction
SizeMB(len) == [num |-> len, den |-> 1024 * 1024]

VARIABLES
  entry,        \* the entry point that was called
  pdfData,      \* the input buffer
  targetBytes,  \* targetSizeMB * 1024 * 1024
  pc,           \* position in compressToTargetSize
  quality, scale, result, attempts,   \* locals of compressToTargetSize
  options,      \* the options of the running compressPdf call
  cpc,          \* position in compressPdf
  numPages, i, newPdf,                \* locals of compressPdf
  events,       \* the progress events the caller's onProgress has received
  passLog,      \* one record per compressPdf call: its options and its outcome
  fetched,      \* the page numbers compressPdf has asked pdfDoc.getPage for
  ret, err,     \* what the entry point returned / raised
  \* --- the browser application (App.tsx)
  files,          \* useState<PdfFile[]>
  outputName,     \* useState("merged")
  appState,       \* useState<AppState>("idle")
  mergeProgress,  \* useState({ current: 0, total: 0 })
  mergedPdfData,  \* useState<Uint8Array | null>(null)
  merges,         \* the mergePdfs calls in flight, one frame each
  mergeCalls,     \* the number of handleMerge calls so far
  alerts,         \* the message of the last alert() shown
  compresses,     \* the handleCompress calls in flight, one frame each
  compressCalls,  \* the number of handleCompress calls that started a compression
  \* --- the command-line tool (index.ts)
  argv,           \* process.argv.slice(2)
  cliPc,          \* position in main
  inputPaths, outputPath,   \* locals of main
  cliIdx, cliPages,         \* mergePdfs: the input being read, the pages added
  disk,           \* the file system: path -> file, or NoFile
  stdout, stderr, \* the lines printed
  exitCode,       \* process.exit's status; NoExit while running
  \* --- which program runs
  prog

compressVars ==
  <<entry, pdfData, targetBytes, pc, quality, scale, result, attempts, options,
    cpc, numPages, i, newPdf, events, passLog, fetched, ret, err>>

uiVars ==
  <<files, outputName, appState, mergeProgress, mergedPdfData, merges, mergeCalls,
    alerts, compresses, compressCalls>>

compressions == <<compresses, compressCalls>>

cliVars ==
  <<argv, cliPc, inputPaths, outputPath, cliIdx, cliPages, disk, stdout, stderr,
    exitCode>>

vars == <<compressVars, uiVars, cliVars, prog>>

notCompress == <<uiVars, cliVars, prog>>

\* ---------------------------------------------------------------- helpers
\* the wrapper attaching the size of the input instead of that of `result`
EmitInputSize(p) ==
  IF entry = "compressToTargetSize"
    THEN Append(events, [stage |-> p.stage, current |-> p.current, total |-> p.total,
                         currentSizeMB |-> SizeMB(pdfData.len)])
    ELSE Append(events, p)

\* the onProgress callback the running compressPdf call was given:
\* compressToTargetSize wraps the caller's and attaches the size of `result`
Emit(p) ==
  IF entry = "compressToTargetSize"
    THEN Append(events, [stage |-> p.stage, current |-> p.current, total |-> p.total,
                         currentSizeMB |-> SizeMB(result.len)])
    ELSE Append(events, p)

\* the table with the first band's test written <= for <
InitialParamsInclusive(target, currentSize) ==
  IF 10 * target <= 1 * currentSize
    THEN [quality |-> Pct(20, QUnit), scale |-> Pct(40, SUnit)]
  ELSE IF 10 * target < 2 * currentSize
    THEN [quality |-> Pct(30, QUnit), scale |-> Pct(50, SUnit)]
  ELSE IF 10 * target < 3 * currentSize
    THEN [quality |-> Pct(40, QUnit), scale |-> Pct(60, SUnit)]
  ELSE IF 10 * target < 5 * currentSize
    THEN [quality |-> Pct(50, QUnit), scale |-> Pct(75, SUnit)]
  ELSE [quality |-> Pct(70, QUnit), scale |-> Pct(90, SUnit)]

\* the five-band table of initial parameters; ratio = targetBytes / currentSize,
\* and ratio < n/10 is compared as 10 * targetBytes < n * currentSize
InitialParams(target, currentSize) ==
  IF 10 * target < 1 * currentSize
    THEN [quality |-> Pct(20, QUnit), scale |-> Pct(40, SUnit)]
  ELSE IF 10 * target < 2 * currentSize
    THEN [quality |-> Pct(30, QUnit), scale |-> Pct(50, SUnit)]
  ELSE IF 10 * target < 3 * currentSize
    THEN [quality |-> Pct(40, QUnit), scale |-> Pct(60, SUnit)]
  ELSE IF 10 * target < 5 * currentSize
    THEN [quality |-> Pct(50, QUnit), scale |-> Pct(75, SUnit)]
  ELSE [quality |-> Pct(70, QUnit), scale |-> Pct(90, SUnit)]

\* quality *= 0.7 without the floor
NextQualityNoFloor(q) == (q * 7) \div 10

\* quality *= 0.7; quality = Math.max(quality, 0.1)
NextQuality(q) == Max((q * 7) \div 10, QualityFloor)

\* scale *= 0.85 without the floor
NextScaleNoFloor(s) == (s * 17) \div 20

\* scale *= 0.85; scale = Math.max(scale, 0.3)
NextScale(s) == Max((s * 17) \div 20, ScaleFloor)

\* the ways the processing of one page can end
PageOutcomes ==
  {"ok", "getPage", "context", "render", "emptyImage", "noBase64", "zeroBytes", "embedJpg"}

\* the message of the error thrown inside the try block, by outcome
PageErrorMessage(outcome, page) ==
  CASE outcome = "getPage"    -> "Invalid page request"
    [] outcome = "context"    -> "Failed to get canvas 2d context"
    [] outcome = "render"     -> "Rendering cancelled"
    [] outcome = "emptyImage" -> "Canvas produced empty image"
    [] outcome = "noBase64"   -> "Failed to extract base64 from canvas"
    [] outcome = "zeroBytes"  -> "Page " \o ToString(page) \o " rendered as empty image"
    [] outcome = "embedJpg"   -> "SOI not found in JPEG"

\* the catch block annotating with the 0-based index
PageFailureZeroBased(page, message) ==
  Error("Failed to process page " \o ToString(page - 1) \o ": " \o message)

\* the catch block of the page loop: the message it re-raises
PageFailure(page, message) ==
  Error("Failed to process page " \o ToString(page) \o ": " \o message)

\* ------------------------------------------------------------------- Init
InitCompress ==
  /\ entry \in {"compressToTargetSize", "compressPdf"}
  /\ \E len \in 0..MaxSize, n \in 0..MaxPages :
       /\ (len = 0 => n = 0)
       /\ pdfData = Bytes(0, len, SourcePages("in", n))
  /\ IF entry = "compressToTargetSize"
       THEN /\ targetBytes \in -1..MaxTarget
            /\ options = Null
       ELSE /\ targetBytes = 0
            /\ \E k \in PresetKey : options = COMPRESSION_PRESETS[k]
  /\ pc = "entry"
  /\ quality = 0 /\ scale = 0 /\ result = Null /\ attempts = 0
  /\ cpc = "idle" /\ numPages = 0 /\ i = 0 /\ newPdf = <<>>
  /\ events = <<>> /\ passLog = <<>> /\ fetched = <<>>
  /\ ret = Null /\ err = Null

\* the compression entry points in the state they have before any call
CompressIdle ==
  /\ entry = "none" /\ pdfData = Null /\ targetBytes = 0 /\ options = Null
  /\ pc = "off"
  /\ quality = 0 /\ scale = 0 /\ result = Null /\ attempts = 0
  /\ cpc = "idle" /\ numPages = 0 /\ i = 0 /\ newPdf = <<>>
  /\ events = <<>> /\ passLog = <<>> /\ fetched = <<>>
  /\ ret = Null /\ err = Null

\* getPage counting from the last page
GetPageReversed(data, k) == data.pages[Len(data.pages) - k + 1]

\* pdfDoc.getPage(k) of the document held by a buffer
GetPage(data, k) == data.pages[k]

\* the size of a source page in the units of its viewport at scale 1
NativeSize(page) == [width |-> 20 + page.no, height |-> 30]

\* page.getViewport({ scale }): the native size times scale, in units of 1/SUnit
Viewport(page, s) ==
  [width |-> NativeSize(page).width * s, height |-> NativeSize(page).height * s]

\* renderPageToImage lines 38-48: the canvas, Math.floor of the scaled viewport
Canvas(page, s) ==
  [width |-> Viewport(page, s).width \div SUnit,
   height |-> Viewport(page, s).height \div SUnit]

\* n * 0.75, kept as an exact fraction
ToPoints(n) == [num |-> 3 * n, den |-> 4]

\* the new page sized from the pixels of the rendered image
ImagePageScaled(page, opts) ==
  [image |-> page, quality |-> opts.quality, scale |-> opts.scale,
   pixels |-> Canvas(page, opts.scale),
   width |-> ToPoints(Canvas(page, opts.scale).width),
   height |-> ToPoints(Canvas(page, opts.scale).height)]

\* the page compressPdf adds for source page `page`: the JPEG rendered with the
\* pass's options on a canvas of the scaled viewport, drawn to fill a new page
\* sized 0.75 times the viewport at scale 1 (lines 109-132)
ImagePage(page, opts) ==
  [image |-> page, quality |-> opts.quality, scale |-> opts.scale,
   pixels |-> Canvas(page, opts.scale),
   width |-> ToPoints(Viewport(page, SUnit).width \div SUnit),
   height |-> ToPoints(Viewport(page, SUnit).height \div SUnit)]

\* passLog with the outcome of the running (last) call filled in
Finished(out) == [passLog EXCEPT ![Len(passLog)].out = out]

\* the outcome of the running (last) compressPdf call
PassOut == passLog[Len(passLog)].out

\* ------------------------------------------------- compressToTargetSize
\* line 163 with < for <=
AlreadyStrictlyUnder(data, target) == data.len < target

\* line 163: currentSize <= targetBytes
AlreadyUnderTarget(data, target) == data.len <= target

\* line 214 with < for <=
StrictlyWithinTarget(out, target) == out.len < target

\* line 214: result.length <= targetBytes
WithinTarget(out, target) == out.len <= target

searchLocals == <<quality, scale, result, attempts>>
passLocals == <<options, cpc, numPages, i, newPdf, fetched>>

\* lines 159-165: if (currentSize <= targetBytes) return pdfData
ShortCircuit ==
  /\ entry = "compressToTargetSize" /\ pc = "entry"
  /\ AlreadyUnderTarget(pdfData, targetBytes)
  /\ ret' = pdfData
  /\ pc' = "done"
  /\ UNCHANGED <<entry, pdfData, targetBytes, searchLocals, passLocals, events,
                 passLog, err,
                 notCompress>>

\* lines 167-193: the locals and the initial parameters
ChooseInitial ==
  /\ entry = "compressToTargetSize" /\ pc = "entry"
  /\ ~AlreadyUnderTarget(pdfData, targetBytes)
  /\ LET p == InitialParams(targetBytes, pdfData.len)
     IN  quality' = p.quality /\ scale' = p.scale
  /\ result' = pdfData
  /\ attempts' = 0
  /\ pc' = "while"
  /\ UNCHANGED <<entry, pdfData, targetBytes, passLocals, events, passLog, ret, err,
                 notCompress>>

\* the next pass started without awaiting the running one
StartAttemptEager ==
  /\ pc \in {"while", "await"}
  /\ attempts < maxAttempts
  /\ attempts' = attempts + 1
  /\ options' = [quality |-> quality, scale |-> scale]
  /\ passLog' = Append(passLog, [quality |-> quality, scale |-> scale, out |-> Null])
  /\ cpc' = "load" /\ numPages' = 0 /\ i' = 0 /\ newPdf' = <<>> /\ fetched' = <<>>
  /\ pc' = "await"
  /\ UNCHANGED <<entry, pdfData, targetBytes, quality, scale, result, events, ret, err,
                 notCompress>>

\* lines 195-198: the loop test holds; attempts++ and the call of compressPdf
StartAttempt ==
  /\ pc = "while"
  /\ attempts < maxAttempts
  /\ attempts' = attempts + 1
  /\ options' = [quality |-> quality, scale |-> scale]
  /\ passLog' = Append(passLog, [quality |-> quality, scale |-> scale, out |-> Null])
  /\ cpc' = "load" /\ numPages' = 0 /\ i' = 0 /\ newPdf' = <<>> /\ fetched' = <<>>
  /\ pc' = "await"
  /\ UNCHANGED <<entry, pdfData, targetBytes, quality, scale, result, events, ret, err,
                 notCompress>>

\* a loop left only once the held result is within the target
ExhaustedOnlyWithinTarget ==
  /\ pc = "while"
  /\ ~(attempts < maxAttempts)
  /\ WithinTarget(result, targetBytes)
  /\ ret' = result
  /\ pc' = "done"
  /\ UNCHANGED <<entry, pdfData, targetBytes, searchLocals, passLocals, events,
                 passLog, err,
                 notCompress>>

\* lines 195, 227: the loop test fails; return result
Exhausted ==
  /\ pc = "while"
  /\ ~(attempts < maxAttempts)
  /\ ret' = result
  /\ pc' = "done"
  /\ UNCHANGED <<entry, pdfData, targetBytes, searchLocals, passLocals, events,
                 passLog, err,
                 notCompress>>

\* the compressing event numbering the attempts from 0
CompressingEventZeroBased(out) ==
  [stage |-> "compressing", current |-> attempts - 1, total |-> maxAttempts,
   currentSizeMB |-> SizeMB(out.len)]

\* the compressing event of lines 207-212, given straight to the caller's onProgress
CompressingEvent(out) ==
  [stage |-> "compressing", current |-> attempts, total |-> maxAttempts,
   currentSizeMB |-> SizeMB(out.len)]

\* lines 198-216, 227: the pass returned bytes within the target; break, return
AttemptMet ==
  /\ entry = "compressToTargetSize" /\ pc = "await" /\ cpc = "returned"
  /\ WithinTarget(PassOut, targetBytes)
  /\ result' = PassOut
  /\ events' = Append(events, CompressingEvent(PassOut))
  /\ ret' = PassOut
  /\ pc' = "done" /\ cpc' = "idle"
  /\ UNCHANGED <<entry, pdfData, targetBytes, quality, scale, attempts, options,
                 numPages, i, newPdf, fetched, passLog, err,
                 notCompress>>

\* AttemptOver keeping the smaller of the held result and the new output
AttemptOverKeepsSmallest ==
  /\ entry = "compressToTargetSize" /\ pc = "await" /\ cpc = "returned"
  /\ ~WithinTarget(PassOut, targetBytes)
  /\ result' = IF result.id # 0 /\ result.len < PassOut.len THEN result ELSE PassOut
  /\ events' = Append(events, CompressingEvent(PassOut))
  /\ quality' = NextQuality(quality)
  /\ scale' = NextScale(scale)
  /\ pc' = "while" /\ cpc' = "idle"
  /\ UNCHANGED <<entry, pdfData, targetBytes, attempts, options, numPages, i, newPdf,
                 fetched, passLog, ret, err,
                 notCompress>>

\* lines 198-225: the pass returned bytes over the target; lower the parameters
AttemptOver ==
  /\ entry = "compressToTargetSize" /\ pc = "await" /\ cpc = "returned"
  /\ ~WithinTarget(PassOut, targetBytes)
  /\ result' = PassOut
  /\ events' = Append(events, CompressingEvent(PassOut))
  /\ quality' = NextQuality(quality)
  /\ scale' = NextScale(scale)
  /\ pc' = "while" /\ cpc' = "idle"
  /\ UNCHANGED <<entry, pdfData, targetBytes, attempts, options, numPages, i, newPdf,
                 fetched, passLog, ret, err,
                 notCompress>>

\* AttemptFailed swallowing the error and returning the held result
AttemptFailedReturnsResult ==
  /\ entry = "compressToTargetSize" /\ pc = "await" /\ cpc = "thrown"
  /\ ret' = result
  /\ pc' = "done" /\ cpc' = "idle"
  /\ UNCHANGED <<entry, pdfData, targetBytes, searchLocals, options, numPages, i,
                 newPdf, fetched, events, passLog, err,
                 notCompress>>

\* line 198: the awaited pass rejected; nothing catches it
AttemptFailed ==
  /\ entry = "compressToTargetSize" /\ pc = "await" /\ cpc = "thrown"
  /\ err' = PassOut
  /\ pc' = "failed" /\ cpc' = "idle"
  /\ UNCHANGED <<entry, pdfData, targetBytes, searchLocals, options, numPages, i,
                 newPdf, fetched, events, passLog, ret,
                 notCompress>>

\* ------------------------------------------------------------ compressPdf
\* handleCompress, preset branch: compressPdf called with a preset's options
DirectCall ==
  /\ entry = "compressPdf" /\ pc = "entry"
  /\ passLog' = Append(passLog, [quality |-> options.quality, scale |-> options.scale,
                                 out |-> Null])
  /\ cpc' = "load" /\ numPages' = 0 /\ i' = 0 /\ newPdf' = <<>> /\ fetched' = <<>>
  /\ pc' = "await"
  /\ UNCHANGED <<entry, pdfData, targetBytes, searchLocals, options, events, ret, err,
                 notCompress>>

DirectReturn ==
  /\ entry = "compressPdf" /\ pc = "await" /\ cpc = "returned"
  /\ ret' = PassOut
  /\ pc' = "done" /\ cpc' = "idle"
  /\ UNCHANGED <<entry, pdfData, targetBytes, searchLocals, options, numPages, i,
                 newPdf, fetched, events, passLog, err,
                 notCompress>>

DirectThrow ==
  /\ entry = "compressPdf" /\ pc = "await" /\ cpc = "thrown"
  /\ err' = PassOut
  /\ pc' = "failed" /\ cpc' = "idle"
  /\ UNCHANGED <<entry, pdfData, targetBytes, searchLocals, options, numPages, i,
                 newPdf, fetched, events, passLog, ret,
                 notCompress>>

\* lines 89-96: pdfjs opens the document; an empty buffer never opens
LoadDocument ==
  /\ cpc = "load"
  /\ pdfData.len > 0
  /\ numPages' = Len(pdfData.pages)
  /\ i' = 1
  /\ cpc' = "loop"
  /\ UNCHANGED <<entry, pdfData, targetBytes, pc, searchLocals, options, newPdf,
                 fetched, events, passLog, ret, err,
                 notCompress>>

\* line 90: the loading task rejects, outside the page loop's try block
LoadFails ==
  /\ cpc = "load"
  /\ passLog' = Finished(Error("Invalid PDF structure"))
  /\ cpc' = "thrown"
  /\ UNCHANGED <<entry, pdfData, targetBytes, pc, searchLocals, options, numPages, i,
                 newPdf, fetched, events, ret, err,
                 notCompress>>

\* the rendering event sent only once the page has been fetched and rendered
PageBeginLate ==
  /\ cpc = "loop"
  /\ i <= numPages
  /\ events' = IF i > 1
                 THEN Emit([stage |-> "rendering", current |-> i - 1, total |-> numPages])
                 ELSE events
  /\ fetched' = Append(fetched, i)
  /\ cpc' = "page"
  /\ UNCHANGED <<entry, pdfData, targetBytes, pc, searchLocals, options, numPages, i,
                 newPdf, passLog, ret, err,
                 notCompress>>

\* lines 98-108: the loop test holds; the rendering event, then getPage(i)
PageBegin ==
  /\ cpc = "loop"
  /\ i <= numPages
  /\ events' = Emit([stage |-> "rendering", current |-> i, total |-> numPages])
  /\ fetched' = Append(fetched, i)
  /\ cpc' = "page"
  /\ UNCHANGED <<entry, pdfData, targetBytes, pc, searchLocals, options, numPages, i,
                 newPdf, passLog, ret, err,
                 notCompress>>

\* lines 108-134: the page is rendered, embedded and added
PageDone ==
  /\ cpc = "page"
  /\ newPdf' = Append(newPdf, ImagePage(GetPage(pdfData, i), options))
  /\ i' = i + 1
  /\ cpc' = "loop"
  /\ UNCHANGED <<entry, pdfData, targetBytes, pc, searchLocals, options, numPages,
                 fetched, events, passLog, ret, err,
                 notCompress>>

\* lines 108-138: a step of the try block throws; the catch block re-raises
PageFails ==
  /\ cpc = "page"
  /\ \E outcome \in PageOutcomes \ {"ok"} :
       passLog' = Finished(PageFailure(i, PageErrorMessage(outcome, i)))
  /\ cpc' = "thrown"
  /\ UNCHANGED <<entry, pdfData, targetBytes, pc, searchLocals, options, numPages, i,
                 newPdf, fetched, events, ret, err,
                 notCompress>>

\* lines 98, 141-148: the loop test fails; the building event, then save()
Building ==
  /\ cpc = "loop"
  /\ ~(i <= numPages)
  /\ events' = Emit([stage |-> "building", current |-> numPages, total |-> numPages])
  /\ cpc' = "save"
  /\ UNCHANGED <<entry, pdfData, targetBytes, pc, searchLocals, options, numPages, i,
                 newPdf, fetched, passLog, ret, err,
                 notCompress>>

\* lines 148-151: save() resolves with the new document's bytes
SaveDone ==
  /\ cpc = "save"
  /\ \E len \in 0..MaxOut :
       passLog' = Finished(Bytes(Len(passLog), len, newPdf))
  /\ cpc' = "returned"
  /\ UNCHANGED <<entry, pdfData, targetBytes, pc, searchLocals, options, numPages, i,
                 newPdf, fetched, events, ret, err,
                 notCompress>>

\* line 148: save() rejects
SaveFails ==
  /\ cpc = "save"
  /\ passLog' = Finished(Error("Failed to save document"))
  /\ cpc' = "thrown"
  /\ UNCHANGED <<entry, pdfData, targetBytes, pc, searchLocals, options, numPages, i,
                 newPdf, fetched, events, ret, err,
                 notCompress>>

NextCompress ==
  \/ ShortCircuit \/ ChooseInitial \/ StartAttempt \/ Exhausted
  \/ AttemptMet \/ AttemptOver \/ AttemptFailed
  \/ DirectCall \/ DirectReturn \/ DirectThrow
  \/ LoadDocument \/ LoadFails \/ PageBegin \/ PageDone \/ PageFails
  \/ Building \/ SaveDone \/ SaveFails


\* ===================================================================
\* The browser application: file list, validation, merge
\* ===================================================================
MaxFiles == 2
MaxMerges == 1
MaxCompresses == 1

\* pageCount: null
NullCount == 0 - 1

Chars(a, b, c, d, e) == <<a, b, c, d, e>>

\* a File: its name (base and extension), MIME type, first five bytes, whether
\* pdf-lib can parse it, and the pages it holds
File(base, ext, type, header, loads, n) ==
  [base |-> base, ext |-> ext, type |-> type, header |-> header, loads |-> loads,
   pages |-> SourcePages(base \o ext, n)]

\* the files a user can pick
FileUniverse ==
  { File("a", ".pdf", "application/pdf", Chars("%", "P", "D", "F", "-"), TRUE, 1),
    File("b", ".pdf", "application/pdf", Chars("%", "P", "D", "F", "-"), TRUE, 2),
    File("c", ".pdf", "application/pdf", Chars("%", "P", "D", "F", "-"), FALSE, 0),
    File("d", ".pdf", "", Chars("h", "e", "l", "l", "o"), FALSE, 0),
    File("e", ".txt", "text/plain", Chars("%", "P", "D", "F", "-"), TRUE, 1) }

\* file.name
FileName(file) == file.base \o file.ext

\* headerStr.startsWith("%PDF")
StartsWithPdf(header) ==
  /\ Len(header) >= 4
  /\ SubSeq(header, 1, 4) = <<"%", "P", "D", "F">>

\* pdf-utils validateAndGetPageCount
validateAndGetPageCount(file) ==
  IF ~StartsWithPdf(file.header)
    THEN [isValid |-> FALSE, pageCount |-> NullCount,
          error |-> "Not a valid PDF file (missing PDF header)"]
  ELSE IF file.loads
    THEN [isValid |-> TRUE, pageCount |-> Len(file.pages), error |-> ""]
  ELSE [isValid |-> FALSE, pageCount |-> NullCount,
        error |-> "Failed to parse PDF document"]

\* handleFiles's filter: f.type === "application/pdf" || f.name.endsWith(".pdf")
IsPdfFile(file) == file.type = "application/pdf" \/ file.ext = ".pdf"

\* file.name.replace(/\.pdf$/i, "")
DisplayName(file) ==
  IF file.ext \in {".pdf", ".PDF", ".Pdf"} THEN file.base ELSE FileName(file)

\* handleFiles's map: the PdfFile of a picked file.  The id (file name, clock and
\* Math.random) only tells the entries of the list apart; the handlers that take
\* an id are given the entry's position instead.
PdfFileOf(file) ==
  LET validation == validateAndGetPageCount(file)
  IN  [file |-> file, displayName |-> DisplayName(file),
       pageCount |-> validation.pageCount, isValid |-> validation.isValid,
       error |-> validation.error]

\* a filter that keeps every entry
IsAnyEntry(f) == TRUE

\* const validFiles = files.filter((f) => f.isValid)
IsValidEntry(f) == f.isValid
validFiles == SelectSeq(files, IsValidEntry)

\* a sequence without its k-th element
Without(seq, k) == SubSeq(seq, 1, k - 1) \o SubSeq(seq, k + 1, Len(seq))

UiIdle ==
  /\ files = <<>>
  /\ outputName = "merged"
  /\ appState = "idle"
  /\ mergeProgress = [current |-> 0, total |-> 0]
  /\ mergedPdfData = Null
  /\ merges = <<>>
  /\ mergeCalls = 0
  /\ alerts = ""
  /\ compresses = <<>>
  /\ compressCalls = 0

notUi == <<compressVars, cliVars, prog>>

\* the page is open in a browser tab
PageOpen == prog = "browser"

\* ------------------------------------------------------------- handlers
\* handleFiles with one picked file: filter, validate, append
handleFiles(file) ==
  /\ PageOpen
  /\ Len(files) < MaxFiles
  /\ files' = IF IsPdfFile(file) THEN Append(files, PdfFileOf(file)) ELSE files
  /\ UNCHANGED <<outputName, appState, mergeProgress, mergedPdfData, merges,
                 mergeCalls, alerts, compressions, notUi>>

\* removeFile(files[k].id)
removeFile ==
  \E k \in 1..Len(files) :
    /\ PageOpen
    /\ k \in 1..Len(files)
    /\ files' = Without(files, k)
    /\ UNCHANGED <<outputName, appState, mergeProgress, mergedPdfData, merges,
                   mergeCalls, alerts, compressions, notUi>>

\* the calls in flight when clearAll runs: their frames remember the clear
\* (history only, the code keeps no such mark)
MarkCleared(frames) == [k \in 1..Len(frames) |-> [frames[k] EXCEPT !.cleared = TRUE]]

clearAll ==
  /\ PageOpen
  /\ files' = <<>>
  /\ outputName' = "merged"
  /\ mergedPdfData' = Null
  /\ merges' = MarkCleared(merges)
  /\ compresses' = MarkCleared(compresses)
  /\ UNCHANGED <<appState, mergeProgress, mergeCalls, alerts, compressCalls, notUi>>

handleStartOver ==
  /\ PageOpen
  /\ appState' = "idle"
  /\ mergedPdfData' = Null
  /\ UNCHANGED <<files, outputName, mergeProgress, merges, mergeCalls, alerts, compressions, notUi>>

\* ------------------------------------------------- handleMerge, mergePdfs
\* validFiles.map((f) => f.file)
FilesOf(fs) == [k \in 1..Len(fs) |-> fs[k].file]

\* merges with frame m changed
SetMerge(m, rec) == [merges EXCEPT ![m] = rec]

\* App.tsx lines 140-148, pdf-utils lines 178-180: the guard, the phase, the
\* progress, and the call of mergePdfs up to its first await.  The model follows
\* one mergePdfs call at a time: a handleMerge call made while another is still
\* in flight is not explored.
handleMerge ==
  /\ PageOpen
  /\ mergeCalls < MaxMerges
  /\ merges = <<>>
  /\ ~(Len(validFiles) < 2)
  /\ appState' = "merging"
  /\ mergeProgress' = [current |-> 0, total |-> Len(validFiles)]
  /\ mergeCalls' = mergeCalls + 1
  /\ merges' = Append(merges, [call |-> mergeCalls + 1, files |-> FilesOf(validFiles),
                               idx |-> 0, pages |-> <<>>, st |-> "loop", out |-> Null,
                               cleared |-> FALSE])
  /\ UNCHANGED <<files, outputName, mergedPdfData, alerts, compressions, notUi>>

\* pdf-utils lines 180-185: the loop test holds; onProgress(i + 1, files.length),
\* then the read of the file starts
MergeFileBegin ==
  \E m \in 1..Len(merges) :
    /\ merges[m].st = "loop"
    /\ merges[m].idx < Len(merges[m].files)
    /\ mergeProgress' = [current |-> merges[m].idx + 1, total |-> Len(merges[m].files)]
    /\ merges' = SetMerge(m, [merges[m] EXCEPT !.st = "file"])
    /\ UNCHANGED <<files, outputName, appState, mergedPdfData, mergeCalls, alerts, compressions, notUi>>

\* addPage putting each copied page in front
AddPagesInFront(pages, copied) == copied \o pages

\* pdf-utils lines 189-193: copyPages in index order, addPage for each in turn
AddPages(pages, copied) == pages \o copied

\* pdf-utils lines 185-193: the file is read, parsed, its pages copied and added
MergeFileDone ==
  \E m \in 1..Len(merges) :
    /\ merges[m].st = "file"
    /\ LET file == merges[m].files[merges[m].idx + 1]
       IN  /\ file.loads
           /\ merges' = SetMerge(m, [merges[m] EXCEPT
                           !.pages = AddPages(merges[m].pages, file.pages),
                           !.idx = @ + 1,
                           !.st = "loop"])
    /\ UNCHANGED <<files, outputName, appState, mergeProgress, mergedPdfData, mergeCalls,
                   alerts, compressions, notUi>>

\* the ways the try block of the merge loop can throw
MergeCauses == {"read", "load", "copy"}

MergeErrorMessage(cause) ==
  CASE cause = "read" -> "The requested file could not be read"
    [] cause = "load" -> "Failed to parse PDF document"
    [] cause = "copy" -> "Failed to copy pages"

\* the catch block rethrowing the error as it came
MergeFailureUnnamed(file, message) == Error(message)

\* pdf-utils lines 194-199: the catch block of the merge loop
MergeFailure(file, message) ==
  Error("Failed to process \"" \o FileName(file) \o "\": " \o message)

\* pdf-utils lines 185-199: a step of the try block throws
MergeFileFails ==
  \E m \in 1..Len(merges) :
    /\ merges[m].st = "file"
    /\ \E cause \in MergeCauses :
         merges' = SetMerge(m, [merges[m] EXCEPT
                      !.st = "thrown",
                      !.out = MergeFailure(merges[m].files[merges[m].idx + 1],
                                           MergeErrorMessage(cause))])
    /\ UNCHANGED <<files, outputName, appState, mergeProgress, mergedPdfData, mergeCalls,
                   alerts, compressions, notUi>>

\* pdf-utils lines 180, 202: the loop test fails; save() resolves
MergeSave ==
  \E m \in 1..Len(merges) :
    /\ merges[m].st = "loop"
    /\ ~(merges[m].idx < Len(merges[m].files))
    /\ \E len \in 0..MaxOut :
         merges' = SetMerge(m, [merges[m] EXCEPT
                      !.st = "returned",
                      !.out = Bytes(merges[m].call, len, merges[m].pages)])
    /\ UNCHANGED <<files, outputName, appState, mergeProgress, mergedPdfData, mergeCalls,
                   alerts, compressions, notUi>>

\* pdf-utils line 202: save() rejects
MergeSaveFails ==
  \E m \in 1..Len(merges) :
    /\ merges[m].st = "loop"
    /\ ~(merges[m].idx < Len(merges[m].files))
    /\ merges' = SetMerge(m, [merges[m] EXCEPT !.st = "thrown",
                                               !.out = Error("Failed to save document")])
    /\ UNCHANGED <<files, outputName, appState, mergeProgress, mergedPdfData, mergeCalls,
                   alerts, compressions, notUi>>

\* App.tsx lines 163-165
MergeAlert(message) == "Failed to merge PDFs:\n\n" \o message

\* App.tsx lines 147-159: mergePdfs resolved with a non-empty buffer
HandleMergeDone ==
  \E m \in 1..Len(merges) :
    /\ merges[m].st = "returned"
    /\ ~(merges[m].out.len = 0)
    /\ mergedPdfData' = merges[m].out
    /\ appState' = "success"
    /\ merges' = Without(merges, m)
    /\ UNCHANGED <<files, outputName, mergeProgress, mergeCalls, alerts, compressions, notUi>>

\* App.tsx lines 154-165: mergePdfs resolved with an empty buffer
HandleMergeEmpty ==
  \E m \in 1..Len(merges) :
    /\ merges[m].st = "returned"
    /\ merges[m].out.len = 0
    /\ appState' = "idle"
    /\ alerts' = MergeAlert("Merge produced an empty file")
    /\ merges' = Without(merges, m)
    /\ UNCHANGED <<files, outputName, mergeProgress, mergedPdfData, mergeCalls, compressions, notUi>>

\* App.tsx lines 160-165: mergePdfs rejected
HandleMergeFailed ==
  \E m \in 1..Len(merges) :
    /\ merges[m].st = "thrown"
    /\ appState' = "idle"
    /\ alerts' = MergeAlert(merges[m].out.message)
    /\ merges' = Without(merges, m)
    /\ UNCHANGED <<files, outputName, mergeProgress, mergedPdfData, mergeCalls, compressions, notUi>>

NextUi ==
  \/ \E file \in FileUniverse : handleFiles(file)
  \/ removeFile
  \/ clearAll
  \/ handleStartOver
  \/ handleMerge
  \/ MergeFileBegin \/ MergeFileDone \/ MergeFileFails
  \/ MergeSave \/ MergeSaveFails
  \/ HandleMergeDone \/ HandleMergeEmpty \/ HandleMergeFailed

\* ------------------------------------------- handleCompress (App.tsx)
\* the controls of the compression panel: useTargetSize, or a preset
CompressModes == {"target", "preset"}

\* App.tsx lines 176-179: nothing to compress
handleCompressNoData ==
  /\ PageOpen
  /\ mergedPdfData = Null
  /\ alerts' = "No PDF data to compress"
  /\ UNCHANGED <<files, outputName, appState, mergeProgress, mergedPdfData, merges,
                 mergeCalls, compressions, notUi>>

\* App.tsx lines 176-204: the guard, the phase, and the call of the compressor
\* with the stored document.  The steps of the compressor itself are those of
\* compressToTargetSize and compressPdf above; here the call is followed through
\* what it gives back to handleCompress.  One call is followed at a time.
handleCompress ==
  /\ PageOpen
  /\ compressCalls < MaxCompresses
  /\ compresses = <<>>
  /\ mergedPdfData # Null
  /\ appState' = "compressing"
  /\ compressCalls' = compressCalls + 1
  /\ \E mode \in CompressModes :
       compresses' = Append(compresses, [call |-> compressCalls + 1, mode |-> mode,
                                         input |-> mergedPdfData, st |-> "running",
                                         out |-> Null, cleared |-> FALSE])
  /\ UNCHANGED <<files, outputName, mergeProgress, mergedPdfData, merges, mergeCalls,
                 alerts, notUi>>

\* the pages of a compressed copy: one image per page of the input
Rasterized(pages) == [k \in 1..Len(pages) |-> [image |-> pages[k]]]

\* the buffer object a compression call creates: never one a merge created
CompressedId(call) == 0 - call

\* App.tsx lines 192-204: the awaited call resolves.  compressToTargetSize gives
\* back its input when that is within the target (part_000 163-165), else the
\* bytes a pass saved; compressPdf always the bytes it saved.
CompressReturns ==
  \E c \in 1..Len(compresses) :
    /\ compresses[c].st = "running"
    /\ \E out \in {Bytes(CompressedId(compresses[c].call), len,
                         Rasterized(compresses[c].input.pages)) : len \in 0..MaxOut}
                    \cup (IF compresses[c].mode = "target" THEN {compresses[c].input}
                                                           ELSE {}) :
         compresses' = [compresses EXCEPT ![c].st = "returned", ![c].out = out]
    /\ UNCHANGED <<files, outputName, appState, mergeProgress, mergedPdfData, merges,
                   mergeCalls, alerts, compressCalls, notUi>>

\* the errors a compression call can raise: from the load, a page, or the save
CompressErrors ==
  {Error("Invalid PDF structure"),
   PageFailure(1, "Canvas produced empty image"),
   Error("Failed to save document")}

\* App.tsx lines 192-204: the awaited call rejects
CompressThrows ==
  \E c \in 1..Len(compresses) :
    /\ compresses[c].st = "running"
    /\ \E e \in CompressErrors :
         compresses' = [compresses EXCEPT ![c].st = "thrown", ![c].out = e]
    /\ UNCHANGED <<files, outputName, appState, mergeProgress, mergedPdfData, merges,
                   mergeCalls, alerts, compressCalls, notUi>>

\* alert(`Failed to compress PDF:\n\n${errorMessage}`)
CompressAlert(message) == "Failed to compress PDF:\n\n" \o message

\* App.tsx lines 207-214: a non-empty result is stored
HandleCompressDone ==
  \E c \in 1..Len(compresses) :
    /\ compresses[c].st = "returned"
    /\ compresses[c].out.len # 0
    /\ mergedPdfData' = compresses[c].out
    /\ appState' = "success"
    /\ compresses' = Without(compresses, c)
    /\ UNCHANGED <<files, outputName, mergeProgress, merges, mergeCalls, alerts,
                   compressCalls, notUi>>

\* App.tsx lines 209-211, 215-221: an empty result is thrown into the catch block
HandleCompressEmpty ==
  \E c \in 1..Len(compresses) :
    /\ compresses[c].st = "returned"
    /\ compresses[c].out.len = 0
    /\ appState' = "success"
    /\ alerts' = CompressAlert("Compression produced an empty file")
    /\ compresses' = Without(compresses, c)
    /\ UNCHANGED <<files, outputName, mergeProgress, mergedPdfData, merges, mergeCalls,
                   compressCalls, notUi>>

\* the catch block going back to the file list
HandleCompressFailedToIdle ==
  \E c \in 1..Len(compresses) :
    /\ compresses[c].st = "thrown"
    /\ appState' = "idle"
    /\ mergedPdfData' = Null
    /\ alerts' = CompressAlert(compresses[c].out.message)
    /\ compresses' = Without(compresses, c)
    /\ UNCHANGED <<files, outputName, mergeProgress, merges, mergeCalls,
                   compressCalls, notUi>>

\* App.tsx lines 215-221: the catch block
HandleCompressFailed ==
  \E c \in 1..Len(compresses) :
    /\ compresses[c].st = "thrown"
    /\ appState' = "success"
    /\ alerts' = CompressAlert(compresses[c].out.message)
    /\ compresses' = Without(compresses, c)
    /\ UNCHANGED <<files, outputName, mergeProgress, mergedPdfData, merges, mergeCalls,
                   compressCalls, notUi>>

\* the handlers and continuations of the whole page
NextApp ==
  \/ NextUi
  \/ handleCompressNoData \/ handleCompress
  \/ CompressReturns \/ CompressThrows
  \/ HandleCompressDone \/ HandleCompressEmpty \/ HandleCompressFailed

\* ===================================================================
\* The command-line tool
\* ===================================================================
MaxArgs == 4

NoFile == [kind |-> "nofile"]
NoExit == 0 - 1

\* the words an argument can be
ArgWords == {"a.pdf", "b.pdf", "c.pdf", "m.pdf", "x.txt", "-o", "--output", "-h"}

\* the working directory before the run: a.pdf and b.pdf are PDF documents,
\* c.pdf does not parse, m.pdf does not exist
InitialDisk ==
  [path \in ArgWords \cup {"merged-<timestamp>.pdf"} |->
     CASE path = "a.pdf" -> [kind |-> "file", loads |-> TRUE,
                             pages |-> SourcePages("a.pdf", 1)]
       [] path = "b.pdf" -> [kind |-> "file", loads |-> TRUE,
                             pages |-> SourcePages("b.pdf", 2)]
       [] path = "c.pdf" -> [kind |-> "file", loads |-> FALSE, pages |-> <<>>]
       [] path = "x.txt" -> [kind |-> "file", loads |-> FALSE, pages |-> <<>>]
       [] OTHER -> NoFile]

\* index.ts lines 25-29: copyPages in index order, addPage for each in turn
CliAddPages(pages, copied) == pages \o copied

\* all argument lists of at most n words
RECURSIVE ArgLists(_)
ArgLists(n) ==
  IF n = 0 THEN {<<>>}
  ELSE LET shorter == ArgLists(n - 1)
       IN  shorter \cup {Append(a, w) : a \in shorter, w \in ArgWords}

\* arg.endsWith(".pdf")
EndsWithPdf(arg) == arg \in {"a.pdf", "b.pdf", "c.pdf", "m.pdf"}

\* args.includes(w)
Includes(args, w) == \E k \in 1..Len(args) : args[k] = w

\* lines 72-90: the argument loop from position k on, with the paths and the
\* output path collected so far
RECURSIVE ParseArgs(_, _, _, _)
ParseArgs(args, k, paths, out) ==
  IF k > Len(args) THEN [ok |-> TRUE, inputPaths |-> paths, outputPath |-> out, error |-> ""]
  ELSE IF args[k] = "-o" \/ args[k] = "--output"
    THEN IF k + 1 > Len(args)
           THEN [ok |-> FALSE, inputPaths |-> paths, outputPath |-> "",
                 error |-> "Error: Output path not specified after -o flag"]
           ELSE ParseArgs(args, k + 2, paths, args[k + 1])
  ELSE IF EndsWithPdf(args[k])
    THEN ParseArgs(args, k + 1, Append(paths, args[k]), out)
  ELSE [ok |-> FALSE, inputPaths |-> paths, outputPath |-> out,
        error |-> "Error: Invalid argument or non-PDF file: " \o args[k]]

\* generateOutputPath(firstInputPath): the first input's directory and a timestamp
generateOutputPath(firstInputPath) == "merged-<timestamp>.pdf"

CliIdle ==
  /\ argv = <<>> /\ cliPc = "off"
  /\ inputPaths = <<>> /\ outputPath = ""
  /\ cliIdx = 0 /\ cliPages = <<>>
  /\ disk = InitialDisk
  /\ stdout = <<>> /\ stderr = <<>>
  /\ exitCode = NoExit

InitCli ==
  /\ argv \in ArgLists(MaxArgs)
  /\ cliPc = "main"
  /\ inputPaths = <<>> /\ outputPath = ""
  /\ cliIdx = 0 /\ cliPages = <<>>
  /\ disk = InitialDisk
  /\ stdout = <<>> /\ stderr = <<>>
  /\ exitCode = NoExit

notCli == <<compressVars, uiVars, prog>>

\* process.exit(code)
Exit(code) == cliPc' = "exited" /\ exitCode' = code

\* lines 65-70: no arguments, or -h / --help among them
CliUsage ==
  /\ cliPc = "main"
  /\ Len(argv) = 0 \/ Includes(argv, "-h") \/ Includes(argv, "--help")
  /\ stdout' = Append(stdout, "Usage")
  /\ Exit(IF Len(argv) = 0 THEN 1 ELSE 0)
  /\ UNCHANGED <<argv, inputPaths, outputPath, cliIdx, cliPages, disk, stderr, notCli>>

\* lines 72-90: the argument loop ends in an error
CliBadArgument ==
  /\ cliPc = "main"
  /\ ~(Len(argv) = 0 \/ Includes(argv, "-h") \/ Includes(argv, "--help"))
  /\ LET parsed == ParseArgs(argv, 1, <<>>, "")
     IN  /\ ~parsed.ok
         /\ stderr' = Append(stderr, parsed.error)
  /\ Exit(1)
  /\ UNCHANGED <<argv, inputPaths, outputPath, cliIdx, cliPages, disk, stdout, notCli>>

\* the test of the input count ending the process with status 0
CliTooFewInputsExitsZero ==
  /\ cliPc = "main"
  /\ ~(Len(argv) = 0 \/ Includes(argv, "-h") \/ Includes(argv, "--help"))
  /\ LET parsed == ParseArgs(argv, 1, <<>>, "")
     IN  /\ parsed.ok
         /\ Len(parsed.inputPaths) < 2
  /\ stderr' = Append(stderr, "Error: Please provide at least 2 PDF files to merge")
  /\ Exit(0)
  /\ UNCHANGED <<argv, inputPaths, outputPath, cliIdx, cliPages, disk, stdout, notCli>>

\* lines 72-95: the arguments parse, but name fewer than 2 inputs
CliTooFewInputs ==
  /\ cliPc = "main"
  /\ ~(Len(argv) = 0 \/ Includes(argv, "-h") \/ Includes(argv, "--help"))
  /\ LET parsed == ParseArgs(argv, 1, <<>>, "")
     IN  /\ parsed.ok
         /\ Len(parsed.inputPaths) < 2
  /\ stderr' = Append(stderr, "Error: Please provide at least 2 PDF files to merge")
  /\ Exit(1)
  /\ UNCHANGED <<argv, inputPaths, outputPath, cliIdx, cliPages, disk, stdout, notCli>>

\* lines 72-100: the arguments parse and name at least 2 inputs
CliParsed ==
  /\ cliPc = "main"
  /\ ~(Len(argv) = 0 \/ Includes(argv, "-h") \/ Includes(argv, "--help"))
  /\ LET parsed == ParseArgs(argv, 1, <<>>, "")
     IN  /\ parsed.ok
         /\ ~(Len(parsed.inputPaths) < 2)
         /\ inputPaths' = parsed.inputPaths
         /\ outputPath' = parsed.outputPath
  /\ cliPc' = "access"
  /\ UNCHANGED <<argv, cliIdx, cliPages, disk, stdout, stderr, exitCode, notCli>>

\* the input paths that fs.access rejects
Missing(paths) == {k \in 1..Len(paths) : disk[paths[k]] = NoFile}

\* lines 97-105: an input does not exist
CliFileNotFound ==
  /\ cliPc = "access"
  /\ Missing(inputPaths) # {}
  /\ LET k == CHOOSE j \in Missing(inputPaths) : \A h \in Missing(inputPaths) : j <= h
     IN  stderr' = Append(stderr, "Error: File not found: " \o inputPaths[k])
  /\ Exit(1)
  /\ UNCHANGED <<argv, inputPaths, outputPath, cliIdx, cliPages, disk, stdout, notCli>>

\* lines 97-110, 13-19: every input exists; mergePdfs is called
CliMergeCall ==
  /\ cliPc = "access"
  /\ Missing(inputPaths) = {}
  /\ stdout' = Append(stdout, "Merging " \o ToString(Len(inputPaths)) \o " PDF files...")
  /\ cliIdx' = 1
  /\ cliPages' = <<>>
  /\ cliPc' = "read"
  /\ UNCHANGED <<argv, inputPaths, outputPath, disk, stderr, exitCode, notCli>>

\* lines 19-29: an input is read, parsed, its pages copied and added
CliMergeFile ==
  /\ cliPc = "read"
  /\ cliIdx <= Len(inputPaths)
  /\ LET file == disk[inputPaths[cliIdx]]
     IN  /\ file # NoFile /\ file.loads
         /\ cliPages' = CliAddPages(cliPages, file.pages)
  /\ stdout' = Append(stdout, "Adding: " \o inputPaths[cliIdx])
  /\ cliIdx' = cliIdx + 1
  /\ UNCHANGED <<argv, cliPc, inputPaths, outputPath, disk, stderr, exitCode, notCli>>

\* lines 19-29, 113-118: reading, parsing or copying an input throws; main's catch
CliMergeFails ==
  /\ cliPc = "read"
  /\ cliIdx <= Len(inputPaths)
  /\ \E cause \in MergeCauses :
       stderr' = Append(stderr, "Error merging PDFs: " \o MergeErrorMessage(cause))
  /\ stdout' = Append(stdout, "Adding: " \o inputPaths[cliIdx])
  /\ Exit(1)
  /\ UNCHANGED <<argv, inputPaths, outputPath, cliIdx, cliPages, disk, notCli>>

\* lines 32-37, 110-112: the merged document is saved and written
CliWrite ==
  /\ cliPc = "read"
  /\ ~(cliIdx <= Len(inputPaths))
  /\ LET path == IF outputPath # "" THEN outputPath
                                   ELSE generateOutputPath(inputPaths[1])
     IN  /\ disk' = [disk EXCEPT ![path] = [kind |-> "file", loads |-> TRUE,
                                            pages |-> cliPages]]
         /\ stdout' = stdout \o <<"Successfully merged PDFs!", "Output: " \o path>>
  /\ cliPc' = "done"
  /\ exitCode' = 0
  /\ UNCHANGED <<argv, inputPaths, outputPath, cliIdx, cliPages, stderr, notCli>>

\* lines 33-35, 113-118: save() or writeFile rejects; main's catch
CliWriteFails ==
  /\ cliPc = "read"
  /\ ~(cliIdx <= Len(inputPaths))
  /\ stderr' = Append(stderr, "Error merging PDFs: " \o "Failed to write file")
  /\ Exit(1)
  /\ UNCHANGED <<argv, inputPaths, outputPath, cliIdx, cliPages, disk, stdout, notCli>>

NextCli ==
  \/ CliUsage \/ CliBadArgument \/ CliTooFewInputs \/ CliParsed
  \/ CliFileNotFound \/ CliMergeCall
  \/ CliMergeFile \/ CliMergeFails \/ CliWrite \/ CliWriteFails

\* ===================================================================
\* Specifications
\* ===================================================================
\* the page with a merged document at hand, at a call of the compressor
InitCompressor == InitCompress /\ UiIdle /\ CliIdle /\ prog = "compress"

SpecCompress == InitCompressor /\ [][NextCompress]_vars

\* every continuation whose promise has settled is run by the event loop, and
\* every pass step that is pending completes
FairCompress == SpecCompress /\ WF_vars(NextCompress)

\* the page as first rendered
InitUi == CompressIdle /\ UiIdle /\ CliIdle /\ prog = "browser"

SpecUi == InitUi /\ [][NextUi]_vars

SpecApp == InitUi /\ [][NextApp]_vars

\* the page right after a merge of two valid files has succeeded: the success
\* panel with its compression controls is shown
InitAfterMerge ==
  /\ CompressIdle /\ CliIdle /\ prog = "browser"
  /\ \E first, second \in {f \in FileUniverse : IsPdfFile(f) /\ PdfFileOf(f).isValid},
        len \in 1..MaxOut :
       /\ files = <<PdfFileOf(first), PdfFileOf(second)>>
       /\ mergedPdfData = Bytes(1, len, AddPages(AddPages(<<>>, first.pages), second.pages))
  /\ outputName = "merged"
  /\ appState = "success"
  /\ mergeProgress = [current |-> 2, total |-> 2]
  /\ merges = <<>> /\ mergeCalls = 1
  /\ alerts = ""
  /\ compresses = <<>> /\ compressCalls = 0

\* the handlers of the success panel and of the header, and the continuations
\* of handleCompress
NextPanel ==
  \/ handleCompressNoData \/ handleCompress
  \/ CompressReturns \/ CompressThrows
  \/ HandleCompressDone \/ HandleCompressEmpty \/ HandleCompressFailed
  \/ clearAll \/ handleStartOver

SpecPanel == InitAfterMerge /\ [][NextPanel]_vars

\* one run of the tool
InitTool == CompressIdle /\ UiIdle /\ InitCli /\ prog = "cli"

SpecCli == InitTool /\ [][NextCli]_vars

\* both merge programs: the browser application or one run of the tool
InitMerge ==
  /\ CompressIdle
  /\ \/ UiIdle /\ CliIdle /\ prog = "browser"
     \/ UiIdle /\ InitCli /\ prog = "cli"

NextMerge == NextUi \/ NextCli

SpecMerge == InitMerge /\ [][NextMerge]_vars

\* ===================================================================
\* The claims
\* ===================================================================
IsSearch == entry = "compressToTargetSize"

\* the passes that have finished with bytes
Returned(k) == passLog[k].out.kind = "bytes"

\* the number of events of a stage received so far
RECURSIVE CountStage(_, _)
CountStage(es, stage) ==
  IF es = <<>> THEN 0
  ELSE (IF Head(es).stage = stage THEN 1 ELSE 0) + CountStage(Tail(es), stage)

\* C1: a compressToTargetSize call whose input is no longer than the target returns
\* the input buffer itself, having run no pass and emitted no event.
C1_ShortCircuit ==
  (IsSearch /\ pdfData.len <= targetBytes /\ pc # "entry") =>
     /\ pc = "done"
     /\ ret = pdfData
     /\ passLog = <<>>
     /\ events = <<>>
     /\ err = Null

C1_Witness ==
  /\ IsSearch /\ pc = "done"
  /\ pdfData.len = targetBytes /\ pdfData.len > 0
  /\ ret = pdfData

\* C2: the search starts at most 5 passes, each with quality >= 0.1 and scale >= 0.3.
C2_AttemptsAndFloors ==
  IsSearch =>
     /\ Len(passLog) <= 5
     /\ attempts = Len(passLog)
     /\ \A k \in 1..Len(passLog) :
          /\ 10 * passLog[k].quality >= QUnit
          /\ 10 * passLog[k].scale >= 3 * SUnit

C2_Witness ==
  /\ IsSearch /\ Len(passLog) = 5
  /\ 10 * passLog[5].quality = QUnit
  /\ 10 * passLog[5].scale = 3 * SUnit
  /\ passLog[1].quality > passLog[5].quality

\* C3: the first attempt whose output is within the target ends the search: it is
\* the last pass started, and once the search has returned its output is the value.
C3_FirstFitEnds ==
  IsSearch =>
    \A k \in 1..Len(passLog) :
      (Returned(k) /\ passLog[k].out.len <= targetBytes) =>
         /\ k = Len(passLog)
         /\ pc \in {"await", "done"}
         /\ (pc = "await" => cpc = "returned")
         /\ (pc = "done" => ret = passLog[k].out /\ err = Null)

C3_Witness ==
  /\ IsSearch /\ pc = "done" /\ Len(passLog) >= 2
  /\ ret = passLog[Len(passLog)].out
  /\ ret.len = targetBytes
  /\ passLog[1].out.len > targetBytes

\* all maxAttempts passes returned bytes over the target
AllOverTarget ==
  /\ Len(passLog) = maxAttempts
  /\ \A k \in 1..maxAttempts : Returned(k) /\ passLog[k].out.len > targetBytes

\* C4: when all 5 attempts end over the target the search does not raise, and what
\* it returns is the buffer of the 5th attempt.
C4_LastAttemptReturned ==
  (IsSearch /\ AllOverTarget) =>
     /\ pc \in {"await", "while", "done"}
     /\ err = Null
     /\ (pc = "done" => ret = passLog[5].out /\ ret.id = 5)

C4_Witness ==
  /\ IsSearch /\ AllOverTarget /\ pc = "done"
  /\ ret = passLog[5].out
  /\ \E k \in 1..4 : passLog[k].out.len < ret.len
  /\ ret # pdfData

\* C5: the first attempt's (quality, scale) is the band of target / input size, a
\* boundary ratio belonging to the higher band.
C5_InitialBand ==
  (IsSearch /\ Len(passLog) >= 1) =>
    LET t == targetBytes
        c == pdfData.len
        first == <<passLog[1].quality, passLog[1].scale>>
        Band(q, s) == first = <<q * (QUnit \div 100), s * (SUnit \div 100)>>
    IN  /\ c > t
        /\ (10 * t < c) => Band(20, 40)
        /\ (10 * t >= c /\ 5 * t < c) => Band(30, 50)
        /\ (5 * t >= c /\ 10 * t < 3 * c) => Band(40, 60)
        /\ (10 * t >= 3 * c /\ 2 * t < c) => Band(50, 75)
        /\ (2 * t >= c) => Band(70, 90)

C5_Witness ==
  /\ IsSearch /\ Len(passLog) >= 1
  /\ 10 * targetBytes = pdfData.len /\ targetBytes > 0
  /\ passLog[1].quality = 30 * (QUnit \div 100)
  /\ passLog[1].scale = 50 * (SUnit \div 100)

\* the number of pages of the first k documents of a list
RECURSIVE PagesBefore(_, _)
PagesBefore(docs, k) ==
  IF k = 0 THEN 0 ELSE PagesBefore(docs, k - 1) + Len(docs[k].pages)

\* `pages` holds the pages of the first n documents of docs: as many pages as
\* they have together, page j of document k at position (pages before k) + j
HoldsInOrder(pages, docs, n) ==
  /\ Len(pages) = PagesBefore(docs, n)
  /\ \A k \in 1..n : \A j \in 1..Len(docs[k].pages) :
       pages[PagesBefore(docs, k - 1) + j] = docs[k].pages[j]

\* the files the tool's input paths named when it started
CliInputs == [k \in 1..Len(inputPaths) |-> InitialDisk[inputPaths[k]]]

\* the path the tool writes
CliOutputPath ==
  IF outputPath # "" THEN outputPath ELSE generateOutputPath(inputPaths[1])

\* C6: a merge of documents with p1..pn pages yields p1+...+pn pages, the pages
\* of input i before those of input i+1, each input's pages in their own order;
\* in the browser (the buffer mergePdfs returns) and in the tool (the file written).
C6_MergeInSourceOrder ==
  /\ \A m \in 1..Len(merges) :
       /\ HoldsInOrder(merges[m].pages, merges[m].files, merges[m].idx)
       /\ merges[m].st = "returned" =>
            /\ merges[m].idx = Len(merges[m].files)
            /\ HoldsInOrder(merges[m].out.pages, merges[m].files, Len(merges[m].files))
  /\ cliPc = "read" => HoldsInOrder(cliPages, CliInputs, cliIdx - 1)
  /\ cliPc = "done" =>
       HoldsInOrder(disk[CliOutputPath].pages, CliInputs, Len(inputPaths))

C6_Witness ==
  \E m \in 1..Len(merges) :
    /\ merges[m].st = "returned"
    /\ Len(merges[m].files) = 2
    /\ FileName(merges[m].files[1]) = "b.pdf"
    /\ FileName(merges[m].files[2]) = "a.pdf"
    /\ merges[m].out.pages =
         <<[doc |-> "b.pdf", no |-> 1], [doc |-> "b.pdf", no |-> 2],
           [doc |-> "a.pdf", no |-> 1]>>


\* C7: a pass that returns bytes has fetched pages 1..n in order, never more than
\* one ahead of the pages added, and page j of its output is the image of page j
\* of the input.
C7_OrderPreserving ==
  /\ Len(fetched) - Len(newPdf) \in {0, 1}
  /\ \A j \in 1..Len(fetched) : fetched[j] = j
  /\ \A j \in 1..Len(newPdf) : newPdf[j].image = pdfData.pages[j]
  /\ \A k \in 1..Len(passLog) :
       Returned(k) =>
         /\ Len(passLog[k].out.pages) = Len(pdfData.pages)
         /\ \A j \in 1..Len(pdfData.pages) :
              /\ passLog[k].out.pages[j].image = pdfData.pages[j]
              /\ passLog[k].out.pages[j].quality = passLog[k].quality
         /\ (k = Len(passLog) => Len(fetched) = Len(pdfData.pages))

C7_Witness ==
  /\ cpc = "returned"
  /\ Len(PassOut.pages) >= 2
  /\ PassOut.pages[2].image = [doc |-> "in", no |-> 2]

\* the running pass was ended by the failure of the page it was processing
PageFailed ==
  /\ passLog # <<>>
  /\ PassOut.kind = "error"
  /\ Len(fetched) = Len(newPdf) + 1

\* C8: when page i fails the pass ends there: pages 1..i and no others were
\* fetched, no building event was emitted for the pass, nothing is returned, and
\* the error names page i.
C8_PageFailureAborts ==
  PageFailed =>
     /\ cpc \in {"thrown", "idle"} /\ pc \in {"await", "failed"}
     /\ fetched = [j \in 1..i |-> j]
     /\ Len(newPdf) = i - 1
     /\ CountStage(events, "building") = Len(passLog) - 1
     /\ CountStage(events, "rendering") = (Len(passLog) - 1) * numPages + i
     /\ ret = Null
     /\ \E o \in PageOutcomes \ {"ok"} :
          PassOut.message =
            "Failed to process page " \o ToString(i) \o ": " \o PageErrorMessage(o, i)
     /\ (pc = "failed" => err = PassOut)

C8_Witness ==
  /\ PageFailed /\ pc = "failed" /\ i = 2 /\ numPages >= 2
  /\ err.message = "Failed to process page 2: Canvas produced empty image"

\* the frame's mergePdfs call was ended by the failure of the file it was reading
FileFailed(frame) ==
  /\ frame.st = "thrown"
  /\ frame.idx < Len(frame.files)

\* C9: when file k of a browser merge fails, the error names file k, the files
\* after k are not read and no bytes come back; handleMerge then sets the phase to
\* idle, shows the message and leaves the stored document as it was.
C9_MergeFailure ==
  /\ [](\A m \in 1..Len(merges) :
          FileFailed(merges[m]) =>
            /\ merges[m].out.kind = "error"
            /\ \E cause \in MergeCauses :
                 merges[m].out.message =
                   "Failed to process \"" \o merges[m].files[merges[m].idx + 1].base
                     \o merges[m].files[merges[m].idx + 1].ext \o "\": "
                     \o MergeErrorMessage(cause)
            /\ HoldsInOrder(merges[m].pages, merges[m].files, merges[m].idx))
  /\ [][\A m \in 1..Len(merges) :
          FileFailed(merges[m]) =>
            /\ Len(merges') # Len(merges) =>
                 /\ merges' = Without(merges, m)
                 /\ appState' = "idle"
                 /\ mergedPdfData' = mergedPdfData
                 /\ alerts' = "Failed to merge PDFs:\n\n" \o merges[m].out.message
            /\ mergeProgress' = mergeProgress]_vars

C9_Witness ==
  /\ merges = <<>> /\ mergeCalls >= 1
  /\ appState = "idle"
  /\ mergedPdfData = Null
  /\ mergeProgress = [current |-> 2, total |-> 2]
  /\ alerts = "Failed to merge PDFs:\n\nFailed to process \"b.pdf\": Failed to copy pages"

\* C10: a pass that fails is the last pass of the search: the search raises that
\* error and returns nothing.
C10_FailurePropagates ==
  IsSearch =>
    \A k \in 1..Len(passLog) :
      passLog[k].out.kind = "error" =>
         /\ k = Len(passLog)
         /\ pc \in {"await", "failed"}
         /\ (pc = "await" => cpc = "thrown")
         /\ ret = Null
         /\ (pc = "failed" => err = passLog[k].out)

C10_Witness ==
  /\ IsSearch /\ pc = "failed" /\ Len(passLog) >= 2
  /\ Returned(1)
  /\ err = passLog[Len(passLog)].out
  /\ ret = Null

\* C11: every call of compressToTargetSize finishes, by returning bytes or by
\* raising, whatever the input size, the target (zero and negative included) and
\* the sizes the passes produce, given that every pass finishes.
C11_SearchTerminates ==
  (entry = "compressToTargetSize") => <>(pc \in {"done", "failed"})

C11_Witness ==
  /\ entry = "compressToTargetSize"
  /\ targetBytes < 0
  /\ pc = "done"
  /\ Len(passLog) = maxAttempts
  /\ ret = passLog[maxAttempts].out

\* the frame's compression has failed: it raised, or it gave back no bytes
CompressFailed(frame) ==
  \/ frame.st = "thrown"
  \/ frame.st = "returned" /\ frame.out.len = 0

RECURSIVE Roles(_, _)
Roles(args, k) ==
  IF k > Len(args) THEN <<>>
  ELSE IF args[k] \in {"-o", "--output"}
    THEN IF k + 1 <= Len(args) THEN <<"flag", "value">> \o Roles(args, k + 2)
                               ELSE <<"flag">>
  ELSE IF args[k] \in {"a.pdf", "b.pdf", "c.pdf", "m.pdf"}
    THEN <<"input">> \o Roles(args, k + 1)
  ELSE <<"other">> \o Roles(args, k + 1)

HelpAsked(args) == \E k \in 1..Len(args) : args[k] \in {"-h", "--help"}

\* the list has an unrecognized argument, or fewer than two input paths
BadArgumentList(args) ==
  LET roles == Roles(args, 1)
  IN  \/ \E k \in 1..Len(roles) : roles[k] = "other" /\ args[k] \notin {"-h", "--help"}
      \/ Cardinality({k \in 1..Len(roles) : roles[k] = "input"}) < 2

CliEnded == cliPc \in {"exited", "done"}

\* status 1, a message on stderr, nothing written
FailsOnStderr == exitCode = 1 /\ stderr # <<>> /\ disk = InitialDisk

\* C14 as stated: every argument list with an unrecognized argument or fewer than
\* two input paths, the empty list included, ends with status 1, a message on
\* stderr and no file written.
C14_Original == (CliEnded /\ BadArgumentList(argv)) => FailsOnStderr

\* C14, amended: such a list never has a file written; when it is not empty and
\* asks for no help the run ends with status 1 and a message on stderr; the empty
\* list ends with status 1 and the usage text on stdout, nothing on stderr; a list
\* with -h or --help ends with status 0 and the usage text on stdout.
C14_BadArgumentsExit ==
  BadArgumentList(argv) =>
    /\ disk = InitialDisk
    /\ CliEnded =>
         IF Len(argv) = 0
           THEN exitCode = 1 /\ stdout = <<"Usage">> /\ stderr = <<>>
         ELSE IF HelpAsked(argv)
           THEN exitCode = 0 /\ stdout = <<"Usage">> /\ stderr = <<>>
         ELSE FailsOnStderr

C14_Witness ==
  /\ argv = <<"a.pdf">>
  /\ cliPc = "exited"
  /\ exitCode = 1
  /\ stderr = <<"Error: Please provide at least 2 PDF files to merge">>
  /\ disk = InitialDisk

IsCompressing(e) == e.stage = "compressing"

\* the compressing events received so far, in order
CompressingEvents == SelectSeq(events, IsCompressing)

\* the events one finished pass and its attempt emit: one rendering event per
\* page, one building event, one compressing event
EventsPerAttempt == Len(pdfData.pages) + 2

\* C15: the search emits one compressing event per completed attempt, after the
\* attempt's pass has finished and before the next pass starts; the k-th has
\* current = k, total = 5 and the size of attempt k's output, so the last one
\* reports the size of the bytes returned.
C15_CompressingEvents ==
  IsSearch =>
    /\ \A j \in 1..Len(events) :
         IsCompressing(events[j]) <=> (j % EventsPerAttempt = 0)
    /\ Len(CompressingEvents) =
         Cardinality({k \in 1..Len(passLog) : Returned(k)})
           - (IF pc = "await" /\ cpc = "returned" THEN 1 ELSE 0)
    /\ \A k \in 1..Len(CompressingEvents) :
         /\ Returned(k)
         /\ CompressingEvents[k].current = k
         /\ CompressingEvents[k].total = 5
         /\ CompressingEvents[k].currentSizeMB = SizeMB(passLog[k].out.len)
    /\ (pc = "done" /\ passLog # <<>>) =>
         /\ Len(CompressingEvents) = Len(passLog)
         /\ events[Len(events)].stage = "compressing"
         /\ events[Len(events)].currentSizeMB = SizeMB(ret.len)

C15_Witness ==
  /\ IsSearch /\ pc = "done"
  /\ Len(passLog) = 3
  /\ Len(pdfData.pages) = 2
  /\ Len(CompressingEvents) = 3
  /\ passLog[2].out.len # ret.len
  /\ events[Len(events)] =
       [stage |-> "compressing", current |-> 3, total |-> 5,
        currentSizeMB |-> SizeMB(ret.len)]

\* the rendering events of pages 1..k of an n-page document, as compressPdf sends them
RenderingEvents(k, n) ==
  [j \in 1..k |-> [stage |-> "rendering", current |-> j, total |-> n]]

BuildingEvent(n) == [stage |-> "building", current |-> n, total |-> n]

\* C16: a compressPdf pass over an n-page input emits the rendering events
\* 1..n in order with total n, each before its page is processed, then one
\* building event after the last page and before the document is saved, and
\* nothing else.
C16_PassEvents ==
  (entry = "compressPdf" /\ pc # "entry") =>
    LET n == Len(pdfData.pages)
    IN  CASE cpc = "load" -> events = <<>>
          [] cpc = "loop" -> events = RenderingEvents(i - 1, n) /\ Len(newPdf) = i - 1
          [] cpc = "page" -> events = RenderingEvents(i, n) /\ Len(newPdf) = i - 1
          [] cpc = "save" ->
               /\ events = Append(RenderingEvents(n, n), BuildingEvent(n))
               /\ Len(newPdf) = n
               /\ PassOut = Null
          [] cpc = "returned" \/ pc = "done" ->
               /\ events = Append(RenderingEvents(n, n), BuildingEvent(n))
               /\ Len(PassOut.pages) = n
          [] OTHER -> Len(events) <= n + 1

C16_Witness ==
  /\ entry = "compressPdf" /\ pc = "done"
  /\ ret.kind = "bytes"
  /\ events = <<[stage |-> "rendering", current |-> 1, total |-> 2],
                [stage |-> "rendering", current |-> 2, total |-> 2],
                [stage |-> "building", current |-> 2, total |-> 2]>>

\* the pages compressPdf has added so far in any pass, and those of saved outputs
OutputPages ==
  {newPdf[k] : k \in 1..Len(newPdf)}
    \cup UNION {{passLog[p].out.pages[k] : k \in 1..Len(passLog[p].out.pages)} :
                  p \in {q \in 1..Len(passLog) : Returned(q)}}

\* C17 as stated: every output page measures 0.75 times the pixel dimensions of
\* the image rasterized at scale times the native resolution.
C17_Original ==
  \A page \in OutputPages :
    /\ page.width = [num |-> 3 * page.pixels.width, den |-> 4]
    /\ page.height = [num |-> 3 * page.pixels.height, den |-> 4]

\* C17, amended: every output page measures 0.75 times the page's viewport at
\* scale 1, whatever the scale parameter; scale sets only the pixel dimensions of
\* the image drawn on it, the floor of scale times the native dimensions.
C17_PageDimensions ==
  \A page \in OutputPages :
    /\ page.width = [num |-> 3 * NativeSize(page.image).width, den |-> 4]
    /\ page.height = [num |-> 3 * NativeSize(page.image).height, den |-> 4]
    /\ page.pixels.width = (NativeSize(page.image).width * page.scale) \div SUnit
    /\ page.pixels.height = (NativeSize(page.image).height * page.scale) \div SUnit
    /\ \A other \in OutputPages :
         other.image = page.image =>
           other.width = page.width /\ other.height = page.height

C17_Witness ==
  /\ IsSearch /\ Len(passLog) >= 2
  /\ Returned(1) /\ Returned(2)
  /\ Len(pdfData.pages) >= 1
  /\ passLog[1].scale # passLog[2].scale
  /\ passLog[1].out.pages[1].width = passLog[2].out.pages[1].width
  /\ passLog[1].out.pages[1].pixels # passLog[2].out.pages[1].pixels

\* q2 is max(0.7 * q1, 0.1), in units of 1/QUnit, with no rounding
IsLoweredQuality(q1, q2) ==
  IF 7 * q1 >= QUnit THEN 10 * q2 = 7 * q1 ELSE 10 * q2 = QUnit

\* s2 is max(0.85 * s1, 0.3), in units of 1/SUnit, with no rounding
IsLoweredScale(s1, s2) ==
  IF 17 * s1 >= 6 * SUnit THEN 20 * s2 = 17 * s1 ELSE 10 * s2 = 3 * SUnit

\* the value k - 1 lowerings make of a first value
RECURSIVE QualityOfAttempt(_, _)
QualityOfAttempt(first, k) ==
  IF k = 1 THEN first
  ELSE LET q == QualityOfAttempt(first, k - 1)
       IN  IF 7 * q >= QUnit THEN (7 * q) \div 10 ELSE QUnit \div 10

RECURSIVE ScaleOfAttempt(_, _)
ScaleOfAttempt(first, k) ==
  IF k = 1 THEN first
  ELSE LET sc == ScaleOfAttempt(first, k - 1)
       IN  IF 17 * sc >= 6 * SUnit THEN (17 * sc) \div 20 ELSE (3 * SUnit) \div 10

\* C18: after an attempt with (q, s) that ended over the target the next attempt
\* uses exactly (max(0.7 q, 0.1), max(0.85 s, 0.3)); so attempt k's parameters
\* follow from the first attempt's and k, never increase, and stay at the floor.
C18_ParameterSchedule ==
  IsSearch =>
    /\ \A k \in 1..(Len(passLog) - 1) :
         /\ Returned(k) /\ passLog[k].out.len > targetBytes
         /\ IsLoweredQuality(passLog[k].quality, passLog[k + 1].quality)
         /\ IsLoweredScale(passLog[k].scale, passLog[k + 1].scale)
         /\ passLog[k + 1].quality <= passLog[k].quality
         /\ passLog[k + 1].scale <= passLog[k].scale
         /\ 10 * passLog[k].quality = QUnit => 10 * passLog[k + 1].quality = QUnit
         /\ 10 * passLog[k].scale = 3 * SUnit => 10 * passLog[k + 1].scale = 3 * SUnit
    /\ \A k \in 1..Len(passLog) :
         /\ passLog[k].quality = QualityOfAttempt(passLog[1].quality, k)
         /\ passLog[k].scale = ScaleOfAttempt(passLog[1].scale, k)
    /\ (pc = "while" /\ attempts >= 1) =>
         /\ IsLoweredQuality(passLog[attempts].quality, quality)
         /\ IsLoweredScale(passLog[attempts].scale, scale)

C18_Witness ==
  /\ IsSearch /\ Len(passLog) = 5
  /\ 10 * passLog[1].quality = 2 * QUnit
  /\ 100 * passLog[2].quality = 14 * QUnit
  /\ 10 * passLog[3].quality = QUnit
  /\ 10 * passLog[4].quality = QUnit
  /\ 10 * passLog[3].scale = 3 * SUnit
  /\ 10 * passLog[5].scale = 3 * SUnit

\* the passes that have been started and have not finished
InFlight == {k \in 1..Len(passLog) : passLog[k].out = Null}

\* C19: the attempts of a search run one after the other: a pass is started only
\* when the pass before it has returned, its size has been reported and found
\* over the target, and never are two passes of a search in flight.
C19_SequentialAttempts ==
  /\ [](IsSearch =>
          /\ Cardinality(InFlight) <= 1
          /\ InFlight \subseteq {Len(passLog)}
          /\ (InFlight # {}) <=> (cpc \in {"load", "loop", "page", "save"}))
  /\ [][(IsSearch /\ Len(passLog') = Len(passLog) + 1 /\ passLog # <<>>) =>
          /\ InFlight = {}
          /\ Returned(Len(passLog))
          /\ PassOut.len > targetBytes
          /\ result = PassOut
          /\ events[Len(events)] =
               [stage |-> "compressing", current |-> Len(passLog), total |-> 5,
                currentSizeMB |-> SizeMB(PassOut.len)]]_vars

C19_Witness ==
  /\ IsSearch /\ Len(passLog) = 2
  /\ Returned(1) /\ passLog[1].out.len > targetBytes
  /\ InFlight = {2}
  /\ cpc = "page"

\* the result the search holds while attempt k runs: the output of attempt
\* k - 1, or the input during attempt 1
HeldDuring(k) == IF k = 1 THEN pdfData ELSE passLog[k - 1].out

\* the number of events the running or last pass has sent so far
SentByPass ==
  CASE cpc = "load" -> 0
    [] cpc = "loop" -> i - 1
    [] cpc = "page" -> i
    [] cpc \in {"save", "returned"} -> numPages + 1
    [] OTHER -> 0

\* C20: during attempt k every rendering and building event of the pass reaches
\* the observer once, in the pass's order, with stage, current and total as sent
\* and with the size of the result held so far: attempt k - 1's output, or the
\* input during attempt 1.
C20_ForwardedEvents ==
  (IsSearch /\ passLog # <<>>) =>
    LET n == Len(pdfData.pages)
    IN  /\ \A idx \in 1..Len(events) :
              LET k == ((idx - 1) \div (n + 2)) + 1
                  j == ((idx - 1) % (n + 2)) + 1
              IN  /\ j <= n =>
                       events[idx] =
                         [stage |-> "rendering", current |-> j, total |-> n,
                          currentSizeMB |-> SizeMB(HeldDuring(k).len)]
                  /\ j = n + 1 =>
                       events[idx] =
                         [stage |-> "building", current |-> n, total |-> n,
                          currentSizeMB |-> SizeMB(HeldDuring(k).len)]
        /\ cpc \in {"load", "loop", "page", "save", "returned"} =>
             Len(events) = (Len(passLog) - 1) * (n + 2) + SentByPass
        /\ pc \in {"while", "done"} => Len(events) = Len(passLog) * (n + 2)
        /\ Len(events) <= Len(passLog) * (n + 2)

C20_Witness ==
  /\ IsSearch /\ Len(passLog) = 2 /\ cpc = "save"
  /\ Len(pdfData.pages) = 2
  /\ passLog[1].out.len # pdfData.len
  /\ events[Len(events)] =
       [stage |-> "building", current |-> 2, total |-> 2,
        currentSizeMB |-> SizeMB(passLog[1].out.len)]

\* C21: in every state of the page the phase is one of idle, merging,
\* compressing, success, and while the phase is success or compressing the
\* stored merged document is non-null and non-empty.
C21_PhaseHasDocument ==
  /\ appState \in {"idle", "merging", "compressing", "success"}
  /\ appState \in {"success", "compressing"} =>
       /\ mergedPdfData # Null
       /\ mergedPdfData.len > 0

\* C22: once clearAll has run, a merge or a compression that was in flight at
\* that moment does not put a document back when it completes: the step that
\* ends such a call leaves the stored document as it is.
C22_ClearedStaysNull ==
  [][/\ \A m \in 1..Len(merges) :
          (merges[m].cleared /\ Len(merges') # Len(merges)) =>
            mergedPdfData' = mergedPdfData
     /\ \A c \in 1..Len(compresses) :
          (compresses[c].cleared /\ Len(compresses') # Len(compresses)) =>
            mergedPdfData' = mergedPdfData]_vars

====
